---- MODULE Spec2Model ----
(***************************************************************************)
(* Model of the conversation orchestration engine of ai_chatter.py:        *)
(* chair selection, mention detection, speaker selection, the             *)
(* end-of-conversation heuristic and the run_conversation turn loop.       *)
(*                                                                         *)
(* A Python str is a sequence of one-character strings.  A character that  *)
(* is not ASCII is written as one token in angle brackets: kanji in upper  *)
(* case ("<KETSU>" for U+7D50), kana in lower case ("<ma>" for U+307E).    *)
(* None is the empty sequence: the code only ever tests an Optional[str]   *)
(* for truth or compares it with a non-empty handle, and both treat None   *)
(* and "" alike.                                                           *)
(***************************************************************************)
EXTENDS Integers, Sequences, FiniteSets, TLC

VARIABLES
    characters,   \* the roster handed to run_conversation
    theme,        \* the theme handed to run_conversation
    max_seconds,  \* the time budget handed to run_conversation
    now,          \* what time.time() returns
    start,        \* run_conversation: start
    history,      \* run_conversation: history
    last_handle,  \* run_conversation: last_handle
    forced_next,  \* run_conversation: forced_next
    speaker,      \* run_conversation: speaker of the turn in progress
    pc,           \* position of run_conversation
    ended_by,     \* how the while loop was left
    outcomes,     \* log: the outcome of the Responder call of each turn so far
    probe         \* one call of a pure function: arguments and result

vars == <<characters, theme, max_seconds, now, start, history, last_handle,
          forced_next, speaker, pc, ended_by, outcomes, probe>>

driver_vars == <<characters, theme, max_seconds, now, start, history,
                 last_handle, forced_next, speaker, pc, ended_by, outcomes>>

----------------------------------------------------------------------------
(* Bounds *)

MaxRoster == 3
MaxSeconds == 1
MaxHistory == 5
MaxTextLen == 4
MaxEndHistory == 5

\* the clock is followed until the largest budget is exhausted
MaxClock == MaxSeconds

----------------------------------------------------------------------------
(* Strings *)

None == << >>

Range(s) == {s[i] : i \in 1..Len(s)}

UpperCase == {"A","B","C","D","E","F","G","H","I","J","K","L","M",
              "N","O","P","Q","R","S","T","U","V","W","X","Y","Z"}

LowerCase == {"a","b","c","d","e","f","g","h","i","j","k","l","m",
              "n","o","p","q","r","s","t","u","v","w","x","y","z"}

Digits == {"0","1","2","3","4","5","6","7","8","9"}

\* the character class of MENTION_RE
HandleChars == UpperCase \cup LowerCase \cup Digits \cup {"_", "-"}

Whitespace == {" ", "\n", "\t"}

UpperSeq == <<"A","B","C","D","E","F","G","H","I","J","K","L","M",
              "N","O","P","Q","R","S","T","U","V","W","X","Y","Z">>

LowerSeq == <<"a","b","c","d","e","f","g","h","i","j","k","l","m",
              "n","o","p","q","r","s","t","u","v","w","x","y","z">>

LowerOf(c) ==
    IF c \in UpperCase THEN LowerSeq[CHOOSE k \in 1..26 : UpperSeq[k] = c] ELSE c

\* str.lower()
Lower(s) == [i \in 1..Len(s) |-> LowerOf(s[i])]

\* sub in s
Contains(s, sub) ==
    \E i \in 1..(Len(s) - Len(sub) + 1) : SubSeq(s, i, i + Len(sub) - 1) = sub

RECURSIVE LStrip(_)
LStrip(s) == IF s # << >> /\ Head(s) \in Whitespace THEN LStrip(Tail(s)) ELSE s

RECURSIVE RStrip(_)
RStrip(s) ==
    IF s # << >> /\ s[Len(s)] \in Whitespace THEN RStrip(SubSeq(s, 1, Len(s) - 1)) ELSE s

\* str.strip()
Strip(s) == RStrip(LStrip(s))

\* "\n".join(texts)
RECURSIVE Join(_)
Join(texts) ==
    IF texts = << >> THEN << >>
    ELSE IF Len(texts) = 1 THEN texts[1]
    ELSE texts[1] \o <<"\n">> \o Join(Tail(texts))

Message(name, handle, text) == [speaker |-> name, handle |-> handle, text |-> text]

Character(name, handle, role) == [name |-> name, handle |-> handle, role |-> role]

----------------------------------------------------------------------------
(* detect_mentions *)

\* the end of the longest run of HandleChars that starts at position i
RECURSIVE RunEnd(_, _)
RunEnd(text, i) ==
    IF i < Len(text) /\ text[i + 1] \in HandleChars THEN RunEnd(text, i + 1) ELSE i

\* MENTION_RE.findall(text), scanning from position i
RECURSIVE FindAll(_, _)
FindAll(text, i) ==
    IF i > Len(text) THEN << >>
    ELSE IF text[i] = "@" /\ i < Len(text) /\ text[i + 1] \in HandleChars
         THEN LET j == RunEnd(text, i + 1)
              IN  <<SubSeq(text, i + 1, j)>> \o FindAll(text, j + 1)
         ELSE FindAll(text, i + 1)

RECURSIVE FilterKnown(_, _)
FilterKnown(found, handles) ==
    IF found = << >> THEN << >>
    ELSE IF Head(found) \in Range(handles)
         THEN <<Head(found)>> \o FilterKnown(Tail(found), handles)
         ELSE FilterKnown(Tail(found), handles)

\* detect_mentions matching the handles without regard to case
detect_mentions_IgnoreCase(text, handles) ==
    FilterKnown([i \in 1..Len(FindAll(text, 1)) |-> Lower(FindAll(text, 1)[i])],
                [i \in 1..Len(handles) |-> Lower(handles[i])])

\* detect_mentions without the filter on the known handles
detect_mentions_Unfiltered(text, handles) == FindAll(text, 1)

detect_mentions(text, handles) == FilterKnown(FindAll(text, 1), handles)

----------------------------------------------------------------------------
(* choose_chair *)

S_chair == <<"c","h","a","i","r">>

\* the chair marker glyph, U+8B70 U+9577
S_gichou == <<"<GI>","<CHOU>">>

\* the first position at which the sequence of booleans holds TRUE, if any does
FirstTrue(flags) ==
    CHOOSE i \in 1..Len(flags) : flags[i] /\ \A j \in 1..(i - 1) : ~flags[j]

IsChairRole(c) == Lower(c.role) = S_chair

IsChairMark(c) == Lower(c.handle) = S_chair \/ Contains(c.name, S_gichou)

\* choose_chair in one pass: the first character that matches by role, by
\* handle or by name
choose_chair_SinglePass(chars) ==
    LET byAny == [i \in 1..Len(chars) |-> IsChairRole(chars[i]) \/ IsChairMark(chars[i])]
    IN  IF \E i \in 1..Len(chars) : byAny[i] THEN chars[FirstTrue(byAny)]
        ELSE chars[1]

choose_chair(chars) ==
    LET byRole == [i \in 1..Len(chars) |-> IsChairRole(chars[i])]
        byMark == [i \in 1..Len(chars) |-> IsChairMark(chars[i])]
    IN  IF \E i \in 1..Len(chars) : byRole[i] THEN chars[FirstTrue(byRole)]
        ELSE IF \E i \in 1..Len(chars) : byMark[i] THEN chars[FirstTrue(byMark)]
        ELSE chars[1]

----------------------------------------------------------------------------
(* choose_next_speaker, chair_prompt *)

\* [c for c in characters if c.handle != handle]
OtherThan(chars, handle) == SelectSeq(chars, LAMBDA c : c.handle # handle)

\* choose_next_speaker without the exclusion of the last speaker
choose_next_speaker_NoExclusion(chars, last, forced) ==
    IF forced # None /\ \E i \in 1..Len(chars) : chars[i].handle = forced
    THEN {chars[CHOOSE i \in 1..Len(chars) : chars[i].handle = forced]}
    ELSE Range(chars)

\* choose_next_speaker with the exclusion applied before the forced handle
choose_next_speaker_ExclusionFirst(chars, last, forced) ==
    LET candidates == OtherThan(chars, last)
        pool == IF candidates = << >> THEN chars ELSE candidates
    IN  IF forced # None /\ \E i \in 1..Len(pool) : pool[i].handle = forced
        THEN {pool[CHOOSE i \in 1..Len(pool) : pool[i].handle = forced]}
        ELSE Range(pool)

\* the characters choose_next_speaker can return: one when the forced handle
\* names a roster member, else every candidate random.choice can draw
choose_next_speaker(chars, last, forced) ==
    IF forced # None /\ \E i \in 1..Len(chars) : chars[i].handle = forced
    THEN {chars[FirstTrue([i \in 1..Len(chars) |-> chars[i].handle = forced])]}
    ELSE LET candidates == OtherThan(chars, last)
         IN  IF candidates = << >> THEN Range(chars) ELSE Range(candidates)

\* "@{target.handle} " followed by U+3069 U+3046 U+601D U+3046 U+FF1F
chair_prompt(chair, target) ==
    <<"@">> \o target.handle \o <<" ", "<do>", "<u>", "<SHI>", "<u>", "<?>">>

----------------------------------------------------------------------------
(* should_end_conversation *)

end_signals ==
    << <<"<KETSU>", "<RON>">>,
       <<"<ma>", "<to>", "<me>">>,
       <<"<I>", "<JOU>">>,
       <<"<SHUU>", "<wa>", "<ri>">>,
       <<"<mo>", "<u>", "<GEN>", "<u>", "<ko>", "<to>", "<ha>", "<na>", "<i>">>,
       <<"<TEI>", "<me>", "<ru>">> >>

\* history[-3:]
Last3(h) == SubSeq(h, IF Len(h) > 3 THEN Len(h) - 2 ELSE 1, Len(h))

TailText(h) == Join([i \in 1..Len(Last3(h)) |-> Last3(h)[i].text])

\* should_end_conversation with a warm-up of 3 messages
should_end_conversation_Min3(h) ==
    IF Len(h) < 3 THEN FALSE
    ELSE LET tail == TailText(h)
         IN  /\ \E k \in 1..Len(end_signals) : Contains(tail, end_signals[k])
             /\ ~Contains(tail, <<"@">>)

should_end_conversation(h) ==
    IF Len(h) < 4 THEN FALSE
    ELSE LET tail == TailText(h)
         IN  /\ \E k \in 1..Len(end_signals) : Contains(tail, end_signals[k])
             /\ ~Contains(tail, <<"@">>)

----------------------------------------------------------------------------
(* run_conversation *)

Alice == Character(<<"A">>, <<"a">>, << >>)

Bob == Character(<<"B">>, <<"b">>, <<"C","h","a","i","r">>)

Gichou == Character(<<"<GI>","<CHOU>","C">>, <<"c">>, << >>)

Dave == Character(<<"D">>, S_chair, << >>)

Cast == {Alice, Bob, Gichou, Dave}

UniqueHandles(chars) ==
    \A i, j \in 1..Len(chars) : chars[i].handle = chars[j].handle => i = j

\* what the loader hands over: a non-empty roster with unique handles
Rosters ==
    {r \in UNION {[1..n -> Cast] : n \in 1..MaxRoster} : UniqueHandles(r)}

\* the rosters of the runs: one or more of Alice, Gichou and Bob, in that order,
\* so that the chair is the last, the middle or the first entry depending on
\* who is present
RunRosters ==
    {r \in Rosters :
        /\ Range(r) \subseteq {Alice, Gichou, Bob}
        /\ \A i, j \in 1..Len(r) :
              i < j => <<r[i], r[j]>> \in {<<Alice, Gichou>>, <<Alice, Bob>>, <<Gichou, Bob>>}}

\* a theme that holds a closing marker and a mention
Themes == {<<"<ma>","<to>","<me>","@","a">>}

\* what client.chat can return: a closing remark, a mention of a stranger and of
\* Alice, nothing, and a single letter between white space
Replies ==
    { <<"<I>","<JOU>">>,
      <<"@","z"," ","@","a">>,
      << >>,
      <<" ","x","\n">> }

NoCharacter == Character(<< >>, << >>, << >>)

NoProbe == [fn |-> "none"]

chair == choose_chair(characters)

\* U+672C U+65E5 U+306E U+30C6 U+30FC U+30DE U+306F U+300C {theme} U+300D U+3067 U+3059 U+3002
OpeningText(t) ==
    <<"<HON>","<JITSU>","<no>","<k:te>","<k:->","<k:ma>","<ha>","<[>">> \o t
        \o <<"<]>","<de>","<su>","<.>">>

\* the text of the chair's apology for a failed call of the speaker named name
ApologyText(name) ==
    <<"<KON>","<no>","<HATSU>","<GEN>","<SHU>","<TOKU>","<de>","<MON>","<DAI>","<ga>",
      "<a>","<tsu>","<ta>","<yo>","<.>">> \o name
        \o <<"<ha>","<a>","<to>","<de>","<WA>","<shi>","<te>","<ne>","<.>">>

Init ==
    /\ characters \in RunRosters
    /\ theme \in Themes
    /\ max_seconds \in 0..MaxSeconds
    /\ now = 0
    /\ start = now
    /\ history = <<Message(chair.name, chair.handle, OpeningText(theme))>>
    /\ last_handle = chair.handle
    /\ forced_next = None
    /\ speaker = NoCharacter
    /\ pc = "loop"
    /\ ended_by = "none"
    /\ outcomes = << >>
    /\ probe = NoProbe

\* the clock advances while the loop is at its check or waits for the Responder
Tick ==
    /\ pc \in {"loop", "call"}
    /\ now < MaxClock
    /\ now' = now + 1
    /\ UNCHANGED <<characters, theme, max_seconds, start, history, last_handle,
                   forced_next, speaker, pc, ended_by, outcomes, probe>>

\* TurnStart with the budget compared by <=
TurnStart_Inclusive ==
    /\ pc = "loop"
    /\ now - start <= max_seconds
    /\ Len(history) < MaxHistory
    /\ speaker' \in choose_next_speaker(characters, last_handle, forced_next)
    /\ forced_next' = None
    /\ pc' = "call"
    /\ UNCHANGED <<characters, theme, max_seconds, now, start, history, last_handle,
                   ended_by, outcomes, probe>>

\* the while condition holds: select the speaker and call the Responder
TurnStart ==
    /\ pc = "loop"
    /\ now - start < max_seconds
    /\ Len(history) < MaxHistory
    /\ speaker' \in choose_next_speaker(characters, last_handle, forced_next)
    /\ forced_next' = None
    /\ pc' = "call"
    /\ UNCHANGED <<characters, theme, max_seconds, now, start, history, last_handle,
                   ended_by, outcomes, probe>>

\* the while condition fails: return history
TimeUp ==
    /\ pc = "loop"
    /\ ~(now - start < max_seconds)
    /\ pc' = "done"
    /\ ended_by' = "timer"
    /\ UNCHANGED <<characters, theme, max_seconds, now, start, history, last_handle,
                   forced_next, speaker, outcomes, probe>>

\* RespondFail with the error of call_ollama left to escape
RespondFail_Raises ==
    /\ pc = "call"
    /\ pc' = "error"
    /\ ended_by' = "Exception"
    /\ outcomes' = Append(outcomes, "fail")
    /\ UNCHANGED <<characters, theme, max_seconds, now, start, history, last_handle,
                   forced_next, speaker, probe>>

\* RespondFail with the apology attributed to the speaker that failed
RespondFail_AsSpeaker ==
    /\ pc = "call"
    /\ history' = Append(history, Message(speaker.name, speaker.handle, ApologyText(speaker.name)))
    /\ last_handle' = chair.handle
    /\ outcomes' = Append(outcomes, "fail")
    /\ pc' = "loop"
    /\ UNCHANGED <<characters, theme, max_seconds, now, start, forced_next, speaker,
                   ended_by, probe>>

\* RespondFail with the failed speaker forced to speak on the next turn
RespondFail_Retry ==
    /\ pc = "call"
    /\ history' = Append(history, Message(chair.name, chair.handle, ApologyText(speaker.name)))
    /\ last_handle' = chair.handle
    /\ forced_next' = speaker.handle
    /\ outcomes' = Append(outcomes, "fail")
    /\ pc' = "loop"
    /\ UNCHANGED <<characters, theme, max_seconds, now, start, speaker, ended_by, probe>>

\* call_ollama raises: the chair apologises
RespondFail ==
    /\ pc = "call"
    /\ history' = Append(history, Message(chair.name, chair.handle, ApologyText(speaker.name)))
    /\ last_handle' = chair.handle
    /\ outcomes' = Append(outcomes, "fail")
    /\ pc' = "loop"
    /\ UNCHANGED <<characters, theme, max_seconds, now, start, forced_next, speaker,
                   ended_by, probe>>

\* Degenerate that lets the empty reply through
Degenerate_OnlyShort(response) == Len(Strip(response)) = 1

Degenerate(response) == response = << >> \/ Len(Strip(response)) < 2

\* RespondDegenerate with the chair's prompt written over the last message
RespondDegenerate_Overwrite ==
    /\ pc = "call"
    /\ \E raw \in Replies : Degenerate(Strip(raw))
    /\ OtherThan(characters, chair.handle) # << >>
    /\ \E target \in Range(OtherThan(characters, chair.handle)) :
          /\ history' = [history EXCEPT ![Len(history)] =
                            Message(chair.name, chair.handle, chair_prompt(chair, target))]
          /\ forced_next' = target.handle
    /\ last_handle' = chair.handle
    /\ outcomes' = Append(outcomes, "degenerate")
    /\ pc' = "loop"
    /\ UNCHANGED <<characters, theme, max_seconds, now, start, speaker, ended_by, probe>>

\* RespondDegenerate with last_handle set to the addressed character
RespondDegenerate_LastIsTarget ==
    /\ pc = "call"
    /\ \E raw \in Replies : Degenerate(Strip(raw))
    /\ OtherThan(characters, chair.handle) # << >>
    /\ \E target \in Range(OtherThan(characters, chair.handle)) :
          /\ history' = Append(history, Message(chair.name, chair.handle, chair_prompt(chair, target)))
          /\ forced_next' = target.handle
          /\ last_handle' = target.handle
    /\ outcomes' = Append(outcomes, "degenerate")
    /\ pc' = "loop"
    /\ UNCHANGED <<characters, theme, max_seconds, now, start, speaker, ended_by, probe>>

\* call_ollama returns an empty or too short reply and somebody other than the chair exists
RespondDegenerate ==
    /\ pc = "call"
    /\ \E raw \in Replies : Degenerate(Strip(raw))
    /\ OtherThan(characters, chair.handle) # << >>
    /\ \E target \in Range(OtherThan(characters, chair.handle)) :
          /\ history' = Append(history, Message(chair.name, chair.handle, chair_prompt(chair, target)))
          /\ forced_next' = target.handle
    /\ last_handle' = chair.handle
    /\ outcomes' = Append(outcomes, "degenerate")
    /\ pc' = "loop"
    /\ UNCHANGED <<characters, theme, max_seconds, now, start, speaker, ended_by, probe>>

\* the same reply when the chair is alone: random.choice([]) raises IndexError
RespondDegenerateAlone ==
    /\ pc = "call"
    /\ \E raw \in Replies : Degenerate(Strip(raw))
    /\ OtherThan(characters, chair.handle) = << >>
    /\ pc' = "error"
    /\ ended_by' = "IndexError"
    /\ outcomes' = Append(outcomes, "degenerate")
    /\ UNCHANGED <<characters, theme, max_seconds, now, start, history, last_handle,
                   forced_next, speaker, probe>>

\* RespondNormal without the redirection to the first mention
RespondNormal_NoForce ==
    /\ pc = "call"
    /\ \E raw \in Replies :
          LET response == Strip(raw)
              appended == Append(history, Message(speaker.name, speaker.handle, response))
          IN  /\ ~Degenerate(response)
              /\ history' = appended
              /\ last_handle' = speaker.handle
              /\ forced_next' = forced_next
              /\ IF should_end_conversation(appended)
                    THEN pc' = "done" /\ ended_by' = "heuristic"
                    ELSE pc' = "loop" /\ ended_by' = ended_by
    /\ outcomes' = Append(outcomes, "normal")
    /\ UNCHANGED <<characters, theme, max_seconds, now, start, speaker, probe>>

\* call_ollama returns a reply of two characters or more
RespondNormal ==
    /\ pc = "call"
    /\ \E raw \in Replies :
          LET response == Strip(raw)
              appended == Append(history, Message(speaker.name, speaker.handle, response))
              handles  == [i \in 1..Len(characters) |-> characters[i].handle]
              mentions == detect_mentions(response, handles)
          IN  /\ ~Degenerate(response)
              /\ history' = appended
              /\ last_handle' = speaker.handle
              /\ forced_next' = IF mentions # << >> THEN mentions[1] ELSE forced_next
              /\ IF should_end_conversation(appended)
                    THEN pc' = "done" /\ ended_by' = "heuristic"
                    ELSE pc' = "loop" /\ ended_by' = ended_by
    /\ outcomes' = Append(outcomes, "normal")
    /\ UNCHANGED <<characters, theme, max_seconds, now, start, speaker, probe>>

Next ==
    \/ Tick
    \/ TurnStart
    \/ TimeUp
    \/ RespondFail
    \/ RespondDegenerate
    \/ RespondDegenerateAlone
    \/ RespondNormal

Spec == Init /\ [][Next]_vars

\* the clock keeps advancing, the loop takes its next step, and every Responder
\* call returns or fails
LiveSpec ==
    /\ Spec
    /\ WF_vars(Tick)
    /\ WF_vars(TurnStart \/ TimeUp)
    /\ WF_vars(RespondFail \/ RespondDegenerate \/ RespondDegenerateAlone \/ RespondNormal)

----------------------------------------------------------------------------
(* Calls of the pure functions on arguments drawn from bounded sets *)

\* no run of the driver is in progress
Idle ==
    /\ characters = << >>
    /\ theme = << >>
    /\ max_seconds = 0
    /\ now = 0
    /\ start = 0
    /\ history = << >>
    /\ last_handle = None
    /\ forced_next = None
    /\ speaker = NoCharacter
    /\ pc = "idle"
    /\ ended_by = "none"
    /\ outcomes = << >>

\* every sequence over S of length at most n
SeqsUpTo(S, n) == UNION {[1..k -> S] : k \in 0..n}

\* handles and forced handles tried: unset, the handles of the cast, a stranger
ProbeHandles == {None, <<"a">>, <<"b">>, <<"c">>, S_chair, <<"z">>}

InitSelect ==
    /\ Idle
    /\ \E r \in Rosters, last \in ProbeHandles, forced \in ProbeHandles :
          probe = [fn |-> "choose_next_speaker", characters |-> r, last_handle |-> last,
                   forced |-> forced, out |-> NoCharacter, done |-> FALSE]

CallChoose ==
    /\ probe.fn = "choose_next_speaker"
    /\ ~probe.done
    /\ \E c \in choose_next_speaker(probe.characters, probe.last_handle, probe.forced) :
          probe' = [probe EXCEPT !.out = c, !.done = TRUE]
    /\ UNCHANGED driver_vars

SpecSelect == InitSelect /\ [][CallChoose]_vars

MentionAlphabet == {"@", "a", "A", " "}

KnownLists ==
    { << >>, << <<"a">> >>, << <<"A">> >>, << <<"a">>, <<"A">> >>,
      << <<"a","a">> >>, << <<"a","A">>, <<"a">> >> }

InitMentions ==
    /\ Idle
    /\ \E text \in SeqsUpTo(MentionAlphabet, MaxTextLen), handles \in KnownLists :
          probe = [fn |-> "detect_mentions", text |-> text, handles |-> handles,
                   out |-> << >>, done |-> FALSE]

CallDetect ==
    /\ probe.fn = "detect_mentions"
    /\ ~probe.done
    /\ probe' = [probe EXCEPT !.out = detect_mentions(probe.text, probe.handles),
                              !.done = TRUE]
    /\ UNCHANGED driver_vars

SpecMentions == InitMentions /\ [][CallDetect]_vars

\* texts with and without a closing marker, a mention, a lone "@"
EndTexts ==
    { <<"o","k">>,
      <<"<I>","<JOU>">>,
      <<"<I>">>,
      <<"<JOU>">>,
      <<"@","a">>,
      <<"x","@">>,
      <<"<ma>","<to>","<me>","@"," ">> }

InitEnd ==
    /\ Idle
    /\ \E texts \in SeqsUpTo(EndTexts, MaxEndHistory) :
          probe = [fn |-> "should_end_conversation",
                   history |-> [i \in 1..Len(texts) |-> Message(<<"A">>, <<"a">>, texts[i])],
                   out |-> FALSE, done |-> FALSE]

CallShouldEnd ==
    /\ probe.fn = "should_end_conversation"
    /\ ~probe.done
    /\ probe' = [probe EXCEPT !.out = should_end_conversation(probe.history),
                              !.done = TRUE]
    /\ UNCHANGED driver_vars

SpecEnd == InitEnd /\ [][CallShouldEnd]_vars

Erin == Character(<<"E">>, <<"e">>, S_chair)

Frank == Character(<<"F">>, <<"f">>, <<"c","h","a","i","r","s">>)

\* rosters that hold chairs by role in both spellings, by handle and by name,
\* a role that only starts with the word, and a character that is no chair
ChairRosters ==
    {r \in UNION {[1..n -> Cast \cup {Erin, Frank}] : n \in 1..MaxRoster} :
        UniqueHandles(r)}

InitChair ==
    /\ Idle
    /\ \E r \in ChairRosters :
          probe = [fn |-> "choose_chair", characters |-> r, out |-> NoCharacter,
                   done |-> FALSE]

CallChair ==
    /\ probe.fn = "choose_chair"
    /\ ~probe.done
    /\ probe' = [probe EXCEPT !.out = choose_chair(probe.characters), !.done = TRUE]
    /\ UNCHANGED driver_vars

SpecChair == InitChair /\ [][CallChair]_vars

\* the runs of the driver together with the calls of should_end_conversation
SpecEndRun == (Init \/ InitEnd) /\ [][Next \/ CallShouldEnd]_vars

----------------------------------------------------------------------------
(* Properties *)

HandlesOf(chars) == {chars[i].handle : i \in 1..Len(chars)}

SelectDone == probe.fn = "choose_next_speaker" /\ probe.done

\* C1 as stated: whatever last_handle and forced_handle are, choose_next_speaker
\* does not return a character whose handle is last_handle, unless the roster
\* has exactly one member.
C1_NeverLastSpeaker ==
    SelectDone /\ Len(probe.characters) # 1 => probe.out.handle # probe.last_handle

\* C1 amended: choose_next_speaker returns a character whose handle is
\* last_handle only if the roster has exactly one member or forced_handle is
\* that same handle.
C1_NeverLastSpeakerUnlessForced ==
    SelectDone /\ probe.out.handle = probe.last_handle
        => Len(probe.characters) = 1 \/ probe.forced = probe.last_handle

C1_Witness ==
    /\ SelectDone
    /\ Len(probe.characters) = 3
    /\ probe.last_handle \in HandlesOf(probe.characters)
    /\ probe.forced # None
    /\ probe.forced \notin HandlesOf(probe.characters)
    /\ probe.out.handle # probe.last_handle

\* C2: a run with a roster of one character never raises an error.
C2_SingleCharacterNeverErrors ==
    Len(characters) = 1 => pc # "error"

OpeningMessage ==
    LET c == choose_chair(characters)
    IN  Message(c.name, c.handle, OpeningText(theme))

\* C3: with a roster of two or more, under the fairness of LiveSpec, the run
\* reaches ENDED, no error escapes, the loop is left by the heuristic or by the
\* timer, and the first message returned is the chair's opening line.
C3_EndsByHeuristicOrTimer ==
    Len(characters) >= 2 ~>
        /\ pc = "done"
        /\ ended_by \in {"heuristic", "timer"}
        /\ Len(history) >= 1
        /\ history[1] = OpeningMessage

C3_Witness ==
    /\ Len(characters) >= 2
    /\ pc = "done"
    /\ ended_by = "heuristic"
    /\ "fail" \in Range(outcomes)
    /\ history[1] = OpeningMessage

AllFailed == \A i \in 1..Len(outcomes) : outcomes[i] = "fail"

\* C4: while every Responder call has failed, the loop is not left by the
\* heuristic or by an error, and the transcript is the opening line followed
\* by one apology of the chair per turn; every message carries the chair's
\* handle; such a run ends by the time budget.
C4_AllFailuresOnlyApologies ==
    AllFailed =>
        /\ ended_by \in {"none", "timer"}
        /\ pc = "done" => ended_by = "timer" /\ now - start >= max_seconds
        /\ Len(history) = 1 + Len(outcomes)
        /\ history[1] = OpeningMessage
        /\ \A i \in 1..Len(history) : history[i].handle = choose_chair(characters).handle
        /\ \A i \in 2..Len(history) :
              /\ history[i].speaker = choose_chair(characters).name
              /\ \E c \in Range(characters) : history[i].text = ApologyText(c.name)

C4_Witness ==
    /\ AllFailed
    /\ Len(outcomes) >= 2
    /\ Len(characters) >= 2
    /\ pc = "done"

\* the positions of text where a mention token starts: an "@" followed by a
\* character of the handle class
MentionStarts(text) ==
    {i \in 1..(Len(text) - 1) : text[i] = "@" /\ text[i + 1] \in HandleChars}

\* the handle of the mention token that starts at position i: the longest run
\* of characters of the handle class after the "@"
TokenAt(text, i) ==
    LET j == CHOOSE j \in (i + 1)..Len(text) :
                /\ \A k \in (i + 1)..j : text[k] \in HandleChars
                /\ j = Len(text) \/ text[j + 1] \notin HandleChars
    IN  SubSeq(text, i + 1, j)

EndDone == probe.fn = "should_end_conversation" /\ probe.done

HasMarker(h) == \E k \in 1..Len(end_signals) : Contains(TailText(h), end_signals[k])

HasMentionToken(h) ==
    \E i \in 1..Len(h) : i > Len(h) - 3 /\ MentionStarts(h[i].text) # {}

\* C5: should_end is true exactly when the transcript has at least 4 messages,
\* a closing marker occurs in the joined text of the last 3 messages and no
\* mention token occurs in those 3 messages.
C5_EndIffMarkerAndNoMentionToken ==
    EndDone =>
        (probe.out <=> /\ Len(probe.history) >= 4
                       /\ HasMarker(probe.history)
                       /\ ~HasMentionToken(probe.history))

\* C6: with a forced_handle that is the handle of a roster member,
\* choose_next_speaker returns that member and can return nothing else,
\* whatever last_handle is.
C6_ForcedIsReturned ==
    SelectDone /\ probe.forced \in HandlesOf(probe.characters) =>
        LET member == CHOOSE c \in Range(probe.characters) : c.handle = probe.forced
        IN  /\ probe.out = member
            /\ choose_next_speaker(probe.characters, probe.last_handle, probe.forced)
                  = {member}

C6_Witness ==
    /\ SelectDone
    /\ Len(probe.characters) = 3
    /\ probe.forced \in HandlesOf(probe.characters)
    /\ probe.forced = probe.last_handle
    /\ probe.out.handle = probe.forced

\* C7: a run with max_seconds = 0 executes no turn and its transcript is the
\* one opening message of the chair.
C7_ZeroBudgetOnlyOpening ==
    max_seconds = 0 /\ pc # "idle" =>
        /\ pc \in {"loop", "done"}
        /\ pc = "done" => ended_by = "timer"
        /\ speaker = NoCharacter
        /\ outcomes = << >>
        /\ history = <<OpeningMessage>>

C7_Witness ==
    /\ max_seconds = 0
    /\ pc = "done"
    /\ Len(characters) = 3
    /\ history = <<OpeningMessage>>

\* C8: should_end is false of every transcript of fewer than 4 messages, and
\* a run never leaves the loop through the heuristic with fewer than 4
\* messages in its transcript.
C8_NoEndBeforeFourMessages ==
    /\ EndDone /\ Len(probe.history) < 4 => probe.out = FALSE
    /\ ~should_end_conversation(history) \/ Len(history) >= 4
    /\ ended_by = "heuristic" => Len(history) >= 4

C8_Witness ==
    /\ EndDone
    /\ Len(probe.history) = 3
    /\ \A i \in 1..3 : probe.history[i].text = <<"<I>","<JOU>">>
    /\ probe.out = FALSE

DetectDone == probe.fn = "detect_mentions" /\ probe.done

KnownStarts(text, handles) ==
    {i \in MentionStarts(text) : TokenAt(text, i) \in Range(handles)}

\* C9: detect_mentions returns the handles of the mention tokens of text that
\* are in known_handles, compared exactly, one per token, in the order of the
\* tokens.
C9_MentionsAreKnownTokensInOrder ==
    DetectDone =>
        LET ks == KnownStarts(probe.text, probe.handles)
        IN  /\ Len(probe.out) = Cardinality(ks)
            /\ \A i \in ks :
                  probe.out[Cardinality({j \in ks : j <= i})] = TokenAt(probe.text, i)

C9_Witness ==
    /\ DetectDone
    /\ probe.text = <<"@","a","@","A">>
    /\ probe.handles = << <<"a">> >>
    /\ probe.out = << <<"a">> >>

\* C10: no turn begins in a state where should_end holds of the transcript.
C10_NoTurnOnceEndHolds ==
    [][pc = "loop" /\ pc' = "call" => ~should_end_conversation(history)]_vars

\* the outcome of the Responder call of the last completed turn
LastOutcome == IF outcomes = << >> THEN "none" ELSE outcomes[Len(outcomes)]

LastText == history[Len(history)].text

RosterHandles == [i \in 1..Len(characters) |-> characters[i].handle]

\* the handle of the first mention token of text that names a roster member
FirstRosterMention(text) ==
    LET ks == KnownStarts(text, RosterHandles)
    IN  TokenAt(text, CHOOSE i \in ks : \A j \in ks : i <= j)

MentionedLast ==
    LastOutcome = "normal" /\ KnownStarts(LastText, RosterHandles) # {}

\* C11: the turn that follows a normal turn whose text mentions a roster handle
\* selects the character of the first such mention; the selection consumes the
\* forced handle, and a forced handle is pending at the top of the loop only
\* right after the turn that set it.
C11_FirstMentionSpeaksNext ==
    [][/\ pc = "loop" /\ pc' = "call" /\ MentionedLast
            => speaker'.handle = FirstRosterMention(LastText)
       /\ pc' = "call" => forced_next' = None
       /\ (pc' = "loop" /\ forced_next' # None /\ LastOutcome' = "normal")
            => forced_next' = FirstRosterMention(LastText')]_vars

C11_Witness ==
    /\ pc = "call"
    /\ MentionedLast
    /\ Len(characters) = 3
    /\ speaker.handle = FirstRosterMention(LastText)
    /\ history[Len(history)].handle # speaker.handle
    /\ history[Len(history)].handle # choose_chair(characters).handle

\* a Responder call returns a degenerate reply in this step
DegenerateStep == pc = "call" /\ outcomes' = Append(outcomes, "degenerate")

\* m is a message of the chair whose text starts with a mention of handle h
ChairAsks(m, h) ==
    /\ m.speaker = choose_chair(characters).name
    /\ m.handle = choose_chair(characters).handle
    /\ 1 \in MentionStarts(m.text)
    /\ TokenAt(m.text, 1) = h

\* C12: a turn whose reply is empty or shorter than 2 characters appends one
\* message of the chair that mentions a character other than the chair, sets
\* last_handle to the chair's handle and forced_next to that character's
\* handle, and the next turn selects that character.
C12_ChairAsksSomebodyElse ==
    [][/\ DegenerateStep =>
            /\ Len(history') = Len(history) + 1
            /\ SubSeq(history', 1, Len(history)) = history
            /\ \E target \in Range(characters) :
                  /\ target.handle # choose_chair(characters).handle
                  /\ ChairAsks(history'[Len(history')], target.handle)
                  /\ forced_next' = target.handle
            /\ last_handle' = choose_chair(characters).handle
       /\ (pc = "loop" /\ pc' = "call" /\ LastOutcome = "degenerate")
            => ChairAsks(history[Len(history)], speaker'.handle)]_vars

\* a Responder call fails in this step
FailStep == pc = "call" /\ outcomes' = Append(outcomes, "fail")

\* C13: a turn whose Responder call fails appends one message, the chair's
\* apology naming the failed speaker; afterwards last_handle is the chair's
\* handle and forced_next is unset, and with two or more characters the next
\* turn does not select the chair.
C13_FailureChairApologises ==
    [][/\ FailStep =>
            /\ history' = Append(history,
                                 Message(choose_chair(characters).name,
                                         choose_chair(characters).handle,
                                         ApologyText(speaker.name)))
            /\ last_handle' = choose_chair(characters).handle
            /\ forced_next' = None
       /\ (pc = "loop" /\ pc' = "call" /\ LastOutcome = "fail" /\ Len(characters) >= 2)
            => speaker'.handle # choose_chair(characters).handle]_vars

C13_Witness ==
    /\ pc = "call"
    /\ LastOutcome = "fail"
    /\ Len(characters) = 3
    /\ Len(history) >= 3
    /\ \E c \in Range(characters) :
          /\ ChairAsks(history[Len(history) - 1], c.handle)
          /\ history[Len(history)].text = ApologyText(c.name)
          /\ speaker.handle \notin {c.handle, choose_chair(characters).handle}

\* C14: with two or more characters, two consecutive messages of the
\* transcript have the same author only if that author is the chair.
C14_OnlyChairSpeaksTwiceInARow ==
    Len(characters) >= 2 =>
        \A i \in 1..(Len(history) - 1) :
            history[i].handle = history[i + 1].handle
                => history[i].handle = choose_chair(characters).handle

\* an iteration of the loop completes in this step
IterationStep == pc = "call" /\ pc' \in {"loop", "done"}

\* C15: the transcript starts as the opening message alone; a step that
\* completes an iteration appends exactly one message to it, and no other
\* step changes it.
C15_TranscriptAppendOnly ==
    /\ history = <<OpeningMessage>>
    /\ [][IF IterationStep
            THEN /\ Len(history') = Len(history) + 1
                 /\ SubSeq(history', 1, Len(history)) = history
            ELSE history' = history]_vars

C15_Witness ==
    /\ pc = "done"
    /\ Len(history) = 4
    /\ {"normal", "fail", "degenerate"} \subseteq Range(outcomes)

\* C16: at the top of the loop and when the run has ended, last_handle is the
\* handle of the last message of the transcript.
C16_LastHandleIsLastAuthor ==
    pc \in {"loop", "done"} => last_handle = history[Len(history)].handle

C16_Witness ==
    /\ pc = "loop"
    /\ LastOutcome = "normal"
    /\ Len(outcomes) >= 2
    /\ outcomes[Len(outcomes) - 1] = "degenerate"
    /\ last_handle # choose_chair(characters).handle
    /\ last_handle = history[Len(history)].handle

\* C17: a check of the budget that finds it exhausted is followed by no
\* selection, call or append; a turn starts only inside the budget; and a turn
\* whose call returns or fails after the budget has passed still completes and
\* appends one message.
C17_BudgetCheckedOnlyAtTop ==
    [][/\ (pc = "loop" /\ now - start >= max_seconds)
            => pc' # "call" /\ history' = history /\ speaker' = speaker
       /\ (pc = "loop" /\ pc' = "call") => now - start < max_seconds
       /\ (pc = "call" /\ pc' # "call" /\ now - start >= max_seconds)
            => /\ pc' \in {"loop", "done"}
               /\ Len(history') = Len(history) + 1
               /\ SubSeq(history', 1, Len(history)) = history]_vars

ForcedIsMember == forced_next = None \/ forced_next \in HandlesOf(characters)

\* C18: forced_next is always unset or the handle of a roster member, and a
\* turn that starts with forced_next set selects the member with that handle.
C18_ForcedNextIsRosterHandle ==
    /\ []ForcedIsMember
    /\ [][(pc = "loop" /\ pc' = "call" /\ forced_next # None)
            => speaker' \in Range(characters) /\ speaker'.handle = forced_next]_vars

C18_Witness ==
    /\ pc = "loop"
    /\ LastOutcome = "normal"
    /\ MentionStarts(LastText) # {}
    /\ KnownStarts(LastText, RosterHandles) = {}
    /\ forced_next = None

ChairDone == probe.fn = "choose_chair" /\ probe.done

\* the spellings of "chair" in upper and lower case letters
ChairSpellings ==
    {s \in [1..5 -> {"c","h","a","i","r","C","H","A","I","R"}] :
        \A i \in 1..5 : s[i] \in {S_chair[i], <<"C","H","A","I","R">>[i]}}

LeastOf(S) == CHOOSE i \in S : \A j \in S : i <= j

\* C19: the chair is the first character whose role is "chair" in any mix of
\* cases; if there is none, the first whose handle is "chair" or whose name
\* contains the chair glyph; if there is none, the first entry. A role match
\* wins over a handle or name match that stands earlier in the roster.
C19_ChairCascade ==
    ChairDone =>
        LET chars  == probe.characters
            byRole == {i \in 1..Len(chars) : chars[i].role \in ChairSpellings}
            byMark == {i \in 1..Len(chars) :
                          chars[i].handle = S_chair \/ Contains(chars[i].name, S_gichou)}
        IN  probe.out = IF byRole # {} THEN chars[LeastOf(byRole)]
                        ELSE IF byMark # {} THEN chars[LeastOf(byMark)]
                        ELSE chars[1]

C19_Witness ==
    /\ ChairDone
    /\ probe.characters = <<Dave, Gichou, Bob>>
    /\ probe.out = Bob

====
